---- MODULE Spec2Model ----
(***************************************************************************)
(* Model of src/train_infer/text_sample.py: the sampling loop of main()    *)
(* run by world_size worker processes (all_gather / barrier collectives),  *)
(* truncation, token decoding, and write_outputs() with its sanity check.  *)
(*                                                                         *)
(* Strings are sequences of atoms: an atom is a word (a non-blank string   *)
(* without whitespace), a blank " ", a newline "\n", or a JSON delimiter.  *)
(***************************************************************************)
EXTENDS Integers, Sequences, FiniteSets, TLC

\* ------------------------------------------------------------------ bounds
MaxBatch == 2
MaxWorkers == 2
MaxSamples == 3
MaxMbr == 2
MaxSeqLen == 1
MaxSentences == 2
MaxRefLines == 2

VARIABLES
    args,               \* [batch_size, num_samples, mbr_sample, sequence_len]
    world_size,         \* dist.get_world_size()
    tokenizer,          \* the id -> string dictionary
    pc,                 \* position of every worker in main()
    sample,             \* the local batch of every worker
    sample_fn_result,   \* how the worker's latest sample_fn call ended
    all_samples,        \* every worker's list of gathered batches
    rounds,             \* the loop iterations every worker has completed
    inbox,              \* contributions to the k-th all_gather, in arrival order
    arr,                \* every worker's concatenated, truncated corpus
    decoded_sentences,  \* every worker's decoded sentences
    error,              \* the exception that ended a worker, or "none"
    barrier_arrived,    \* the workers that have called dist.barrier()
    sentences,          \* write_outputs: its argument
    sanity_file,        \* write_outputs: the content of the reference file
    text_fout,          \* write_outputs: the content of the .txt file
    json_fout,          \* write_outputs: the content of the .json file
    sanity_check_lines, \* write_outputs: fin.readlines()
    wpc,                \* write_outputs: position
    wi,                 \* write_outputs: loop index (0-based)
    message             \* write_outputs: the payload of the AssertionError

mainVars == <<args, world_size, tokenizer, rounds, pc, sample, sample_fn_result,
              all_samples, inbox, arr, decoded_sentences, error,
              barrier_arrived>>
writeVars == <<sentences, sanity_file, text_fout, json_fout,
               sanity_check_lines, wpc, wi, message>>
vars == <<mainVars, writeVars>>

\* ----------------------------------------------------------------- helpers
Range(s) == {s[i] : i \in 1..Len(s)}

RECURSIVE Concatenate(_)
Concatenate(ss) ==
    IF ss = <<>> THEN <<>> ELSE Head(ss) \o Concatenate(Tail(ss))

Take(s, n) == SubSeq(s, 1, IF n < Len(s) THEN n ELSE Len(s))

Ranks == 0..(world_size - 1)

\* the vocabulary words the id -> string table may hold
Vocab == <<"the", "cat", "sat">>
VocabSize == Len(Vocab)

\* the tables a run may be given: complete, or with the last index missing
Tokenizers ==
    { [i \in 0..(VocabSize - 1) |-> Vocab[i + 1]],
      [i \in 0..(VocabSize - 2) |-> Vocab[i + 1]] }

\* ------------------------------------------------------- the sampling loop
\* while len(all_samples) * args.batch_size < args.num_samples
LoopCond_inclusive(w) == Len(all_samples[w]) * args.batch_size <= args.num_samples
LoopCond(w) == Len(all_samples[w]) * args.batch_size < args.num_samples

\* the all_gather call the worker is in or will make next (1-based)
GatherCall(w) == rounds[w] + 1

\* sample_fn: produces a finite batch of sample_shape, or raises on a non-finite value
p_sample_loop(w) ==
    { [raised |-> r,
       tensor |-> [j \in 1..args.batch_size |->
                     [rank |-> w, round |-> GatherCall(w), j |-> j, finite |-> ~r]]]
      : r \in BOOLEAN }

\* main() has no handler around sample_fn: an exception leaves main()
AfterSample_swallow(res) == "gather"
AfterSample(res) == IF res.raised THEN "aborted" ELSE "gather"

Sample(w) ==
    /\ pc[w] = "loop"
    /\ LoopCond(w)
    /\ \E res \in p_sample_loop(w) :
         LET nxt == AfterSample(res) IN
         /\ pc' = [pc EXCEPT ![w] = nxt]
         /\ sample_fn_result' =
              [sample_fn_result EXCEPT ![w] = IF res.raised THEN "raised" ELSE "returned"]
         /\ sample' = IF nxt = "gather" THEN [sample EXCEPT ![w] = res.tensor] ELSE sample
         /\ error' = IF nxt = "aborted"
                     THEN [error EXCEPT ![w] = "NumericalError"] ELSE error
    /\ UNCHANGED <<args, world_size, tokenizer, rounds, all_samples, inbox, arr,
                   decoded_sentences, barrier_arrived, writeVars>>

\* dist.all_gather(gathered_samples, sample): the worker contributes its batch
GatherEnter(w) ==
    /\ pc[w] = "gather"
    /\ LET k == GatherCall(w)
           c == [rank |-> w, tensor |-> sample[w]]
       IN inbox' = IF Len(inbox) < k
                   THEN Append(inbox, <<c>>)
                   ELSE [inbox EXCEPT ![k] = Append(@, c)]
    /\ pc' = [pc EXCEPT ![w] = "in_gather"]
    /\ UNCHANGED <<args, world_size, tokenizer, rounds, sample, sample_fn_result,
                   all_samples, arr, decoded_sentences, error, barrier_arrived,
                   writeVars>>

\* gathered_samples after the k-th all_gather: slot r holds the batch of rank r
GatheredSamples_arrival(k) == [i \in 1..world_size |-> inbox[k][i].tensor]
GatheredSamples(k) ==
    [i \in 1..world_size |->
        (CHOOSE c \in Range(inbox[k]) : c.rank = i - 1).tensor]

\* all_gather returns once every rank has contributed; all_samples.extend(...)
GatherExit(w) ==
    /\ pc[w] = "in_gather"
    /\ LET k == GatherCall(w) IN
         /\ Len(inbox[k]) = world_size
         /\ all_samples' = [all_samples EXCEPT ![w] = @ \o GatheredSamples(k)]
    /\ rounds' = [rounds EXCEPT ![w] = @ + 1]
    /\ pc' = [pc EXCEPT ![w] = "loop"]
    /\ UNCHANGED <<args, world_size, tokenizer, sample, sample_fn_result,
                   inbox, arr, decoded_sentences, error, barrier_arrived,
                   writeVars>>

\* the while condition is false: the loop ends
ExitLoop(w) ==
    /\ pc[w] = "loop"
    /\ ~LoopCond(w)
    /\ pc' = [pc EXCEPT ![w] = "concat"]
    /\ UNCHANGED <<args, world_size, tokenizer, rounds, sample, sample_fn_result,
                   all_samples, inbox, arr, decoded_sentences, error,
                   barrier_arrived, writeVars>>

\* arr = np.concatenate(all_samples, axis=0)[: num_samples * mbr_sample]
Truncated(w) ==
    Take(Concatenate(all_samples[w]), args.num_samples * args.mbr_sample)

Truncate(w) ==
    /\ pc[w] = "concat"
    /\ IF all_samples[w] = <<>>
       THEN \* np.concatenate of an empty list raises
            /\ pc' = [pc EXCEPT ![w] = "aborted"]
            /\ error' = [error EXCEPT ![w] = "ValueError"]
            /\ arr' = arr
       ELSE /\ pc' = [pc EXCEPT ![w] = "decode"]
            /\ arr' = [arr EXCEPT ![w] = Truncated(w)]
            /\ error' = error
    /\ UNCHANGED <<args, world_size, tokenizer, rounds, sample, sample_fn_result,
                   all_samples, inbox, decoded_sentences, barrier_arrived,
                   writeVars>>

\* --------------------------------------------------------------- decoding
\* " ".join(tokens)
RECURSIVE Join(_)
Join(toks) ==
    IF Len(toks) = 0 THEN <<>>
    ELSE IF Len(toks) = 1 THEN <<toks[1]>>
    ELSE <<toks[1], " ">> \o Join(Tail(toks))

\* model.get_logits + th.topk(k=1): the top-1 vocabulary index of position p
\* of a sample, a fixed function of the sample
Top1(s, p) == (s.rank + s.round + s.j + p) % VocabSize

\* tokenizer[x]: a dictionary lookup, a KeyError when x has no entry
TokenizerLookup_get(x) ==
    IF x \in DOMAIN tokenizer THEN [ok |-> TRUE, str |-> tokenizer[x]]
    ELSE [ok |-> TRUE, str |-> ""]
TokenizerLookup(x) ==
    IF x \in DOMAIN tokenizer THEN [ok |-> TRUE, str |-> tokenizer[x]]
    ELSE [ok |-> FALSE, str |-> "KeyError"]

\* the lookups of one sequence, position by position
Lookups(s) == [p \in 1..args.sequence_len |-> TokenizerLookup(Top1(s, p))]
SeqDecodes(s) == \A p \in 1..args.sequence_len : Lookups(s)[p].ok
DecodedSentence(s) == Join([p \in 1..args.sequence_len |-> Lookups(s)[p].str])

\* the sequences decoded before the first failing lookup (all, when none fails)
DecodedCount(a) ==
    IF \A i \in 1..Len(a) : SeqDecodes(a[i]) THEN Len(a)
    ELSE (CHOOSE i \in 1..Len(a) :
            /\ ~SeqDecodes(a[i])
            /\ \A j \in 1..(i - 1) : SeqDecodes(a[j])) - 1

\* for seq in cands.indices: decoded_sentences.append(" ".join(...))
Decode(w) ==
    /\ pc[w] = "decode"
    /\ LET n == DecodedCount(arr[w]) IN
         /\ decoded_sentences' =
              [decoded_sentences EXCEPT ![w] = [i \in 1..n |-> DecodedSentence(arr[w][i])]]
         /\ IF n = Len(arr[w])
            THEN /\ pc' = [pc EXCEPT ![w] = "barrier"]
                 /\ error' = error
            ELSE /\ pc' = [pc EXCEPT ![w] = "aborted"]
                 /\ error' = [error EXCEPT ![w] = "KeyError"]
    /\ UNCHANGED <<args, world_size, tokenizer, rounds, sample, sample_fn_result,
                   all_samples, inbox, arr, barrier_arrived, writeVars>>

\* dist.barrier(): the worker arrives
BarrierEnter(w) ==
    /\ pc[w] = "barrier"
    /\ barrier_arrived' = barrier_arrived \cup {w}
    /\ pc' = [pc EXCEPT ![w] = "in_barrier"]
    /\ UNCHANGED <<args, world_size, tokenizer, rounds, sample, sample_fn_result,
                   all_samples, inbox, arr, decoded_sentences, error, writeVars>>

\* the barrier releases a worker once every rank has arrived
BarrierReleased_noop == TRUE
BarrierReleased == barrier_arrived = Ranks

\* the worker leaves the barrier and calls write_outputs(sentences=decoded_sentences)
BarrierExit(w) ==
    /\ pc[w] = "in_barrier"
    /\ BarrierReleased
    /\ pc' = [pc EXCEPT ![w] = "write_outputs"]
    /\ UNCHANGED <<args, world_size, tokenizer, rounds, sample, sample_fn_result,
                   all_samples, inbox, arr, decoded_sentences, error,
                   barrier_arrived, writeVars>>

\* ----------------------------------------------------------- write_outputs
Whitespace == {" ", "\n"}
IsWord(a) == a \notin Whitespace

\* str.split() (and str.strip().split()): the words between runs of whitespace
Split(line) == SelectSeq(line, IsWord)

\* fin.readlines(): the lines of a file, each with its terminating "\n"
RECURSIVE ReadLines(_)
ReadLines(content) ==
    IF content = <<>> THEN <<>>
    ELSE IF \E i \in 1..Len(content) : content[i] = "\n"
    THEN LET n == CHOOSE i \in 1..Len(content) :
                    /\ content[i] = "\n"
                    /\ \A j \in 1..(i - 1) : content[j] # "\n"
         IN <<SubSeq(content, 1, n)>> \o ReadLines(SubSeq(content, n + 1, Len(content)))
    ELSE <<content>>

\* json.dumps of a list of strings
RECURSIVE JsonItems(_)
JsonItems(strs) ==
    IF strs = <<>> THEN <<>>
    ELSE <<"\"">> \o Head(strs) \o <<"\"">>
         \o (IF Len(strs) > 1 THEN <<", ">> ELSE <<>>) \o JsonItems(Tail(strs))
JsonDumps(strs) == <<"[">> \o JsonItems(strs) \o <<"]">>

\* text_fout.write(generated_sentence + "\n")
TextRecord_nonewline(s) == s
TextRecord(s) == s \o <<"\n">>

\* json_fout.write(json.dumps([generated_sentence]) + "\n")
JsonRecord(s) == JsonDumps(<<s>>) \o <<"\n">>

\* for generated_sentence in sentences: one record to each file
WriteSentence ==
    /\ wpc = "writing"
    /\ wi < Len(sentences)
    /\ text_fout' = text_fout \o TextRecord(sentences[wi + 1])
    /\ json_fout' = json_fout \o JsonRecord(sentences[wi + 1])
    /\ wi' = wi + 1
    /\ UNCHANGED <<mainVars, sentences, sanity_file, sanity_check_lines, wpc, message>>

\* the files are closed; sanity_check_lines = fin.readlines()
ReadSanityCheck ==
    /\ wpc = "writing"
    /\ wi = Len(sentences)
    /\ sanity_check_lines' = ReadLines(sanity_file)
    /\ wi' = 0
    /\ wpc' = "comparing"
    /\ UNCHANGED <<mainVars, sentences, sanity_file, text_fout, json_fout, message>>

\* for i, sanity_check_line in enumerate(sanity_check_lines)
CompareCount == Len(sanity_check_lines)

\* set(sanity_check_line.strip().split())
ReferenceToks(i) == Range(Split(sanity_check_lines[i + 1]))

\* set(sentences[i].split()): an IndexError when there is no sentence i
GeneratedToks_padded(i) ==
    IF i < Len(sentences)
    THEN [ok |-> TRUE, toks |-> Range(Split(sentences[i + 1]))]
    ELSE [ok |-> TRUE, toks |-> {}]
GeneratedToks(i) ==
    IF i < Len(sentences)
    THEN [ok |-> TRUE, toks |-> Range(Split(sentences[i + 1]))]
    ELSE [ok |-> FALSE, toks |-> {}]

\* assert jaccard > 0.9, with jaccard = common / union
ThresholdNum == 9
ThresholdDen == 10
JaccardAbove(common, union) == ThresholdDen * common > ThresholdNum * union

\* f"line {i} is not similar enough: {jaccard} {ref_toks} {gen_toks} | {common}"
AssertionMessage_swapped(i, jaccard, ref, gen, common) == <<i, jaccard, gen, ref, common>>
AssertionMessage(i, jaccard, ref, gen, common) == <<i, jaccard, ref, gen, common>>

CompareLine ==
    /\ wpc = "comparing"
    /\ wi < CompareCount
    /\ LET ref == ReferenceToks(wi)
           g == GeneratedToks(wi)
           common == Cardinality(ref \cap g.toks)
           union == Cardinality(ref \cup g.toks)
       IN IF ~g.ok
          THEN wpc' = "IndexError" /\ UNCHANGED <<wi, message>>
          ELSE IF union = 0
          THEN wpc' = "ZeroDivisionError" /\ UNCHANGED <<wi, message>>
          ELSE IF JaccardAbove(common, union)
          THEN wi' = wi + 1 /\ UNCHANGED <<wpc, message>>
          ELSE /\ wpc' = "AssertionError"
               /\ message' = AssertionMessage(wi, <<common, union>>, ref, g.toks,
                                              ref \cap g.toks)
               /\ wi' = wi
    /\ UNCHANGED <<mainVars, sentences, sanity_file, text_fout, json_fout,
                   sanity_check_lines>>

\* the loop over the reference lines ends: write_outputs returns
Return ==
    /\ wpc = "comparing"
    /\ wi = CompareCount
    /\ wpc' = "returned"
    /\ UNCHANGED <<mainVars, sentences, sanity_file, text_fout, json_fout,
                   sanity_check_lines, wi, message>>

\* ------------------------------------------------------------ specification
WriteIdle ==
    /\ sentences = <<>>
    /\ sanity_file = <<>>
    /\ text_fout = <<>>
    /\ json_fout = <<>>
    /\ sanity_check_lines = <<>>
    /\ wpc = "idle"
    /\ wi = 0
    /\ message = <<>>

Init ==
    /\ args \in [batch_size : 1..MaxBatch, num_samples : 0..MaxSamples,
                 mbr_sample : 1..MaxMbr, sequence_len : 0..MaxSeqLen]
    /\ world_size \in 1..MaxWorkers
    /\ tokenizer \in Tokenizers
    /\ pc = [w \in Ranks |-> "loop"]
    /\ sample = [w \in Ranks |-> <<>>]
    /\ sample_fn_result = [w \in Ranks |-> "none"]
    /\ all_samples = [w \in Ranks |-> <<>>]
    /\ rounds = [w \in Ranks |-> 0]
    /\ inbox = <<>>
    /\ arr = [w \in Ranks |-> <<>>]
    /\ decoded_sentences = [w \in Ranks |-> <<>>]
    /\ error = [w \in Ranks |-> "none"]
    /\ barrier_arrived = {}
    /\ WriteIdle

Next ==
    \/ \E w \in Ranks : Sample(w)
    \/ \E w \in Ranks : GatherEnter(w)
    \/ \E w \in Ranks : GatherExit(w)
    \/ \E w \in Ranks : ExitLoop(w)
    \/ \E w \in Ranks : Truncate(w)
    \/ \E w \in Ranks : Decode(w)
    \/ \E w \in Ranks : BarrierEnter(w)
    \/ \E w \in Ranks : BarrierExit(w)

Spec == Init /\ [][Next]_vars

\* ---- write_outputs on its own: the sentences and the reference file are inputs
Ten == <<"a", "b", "c", "d", "e", "f", "g", "h", "i", "j">>
Nine == SubSeq(Ten, 1, Len(Ten) - 1)
Eleven == Ten \o <<"k">>

\* token lists the decoder may hand over (a sentence is their join)
GeneratedPool ==
    { <<>>, <<"the", "cat", "sat">>, <<"the", "cat", "sit">>, Ten }

\* lines the reference file may hold (without the line terminator)
ReferencePool ==
    { <<>>,
      Join(<<"the", "cat", "sat">>),
      <<" ", "sat", " ", " ", "the", " ", "cat", " ">>,
      Join(Nine),
      Join(Eleven) }

SeqsUpTo(S, n) == UNION { [1..k -> S] : k \in 0..n }

\* the file made of the given lines; the last line may lack its terminator
FileOf(lines, terminated) ==
    LET all == Concatenate([i \in 1..Len(lines) |-> lines[i] \o <<"\n">>])
    IN IF terminated \/ all = <<>> THEN all ELSE SubSeq(all, 1, Len(all) - 1)

InitWrite ==
    /\ args = [batch_size |-> 1, num_samples |-> 0, mbr_sample |-> 1, sequence_len |-> 0]
    /\ world_size = 1
    /\ tokenizer \in {t \in Tokenizers : Cardinality(DOMAIN t) = VocabSize}
    /\ pc = [w \in Ranks |-> "write_outputs"]
    /\ sample = [w \in Ranks |-> <<>>]
    /\ sample_fn_result = [w \in Ranks |-> "none"]
    /\ all_samples = [w \in Ranks |-> <<>>]
    /\ rounds = [w \in Ranks |-> 0]
    /\ inbox = <<>>
    /\ arr = [w \in Ranks |-> <<>>]
    /\ decoded_sentences = [w \in Ranks |-> <<>>]
    /\ error = [w \in Ranks |-> "none"]
    /\ barrier_arrived = Ranks
    /\ \E toks \in SeqsUpTo(GeneratedPool, MaxSentences) :
          sentences = [i \in 1..Len(toks) |-> Join(toks[i])]
    /\ \E lines \in SeqsUpTo(ReferencePool, MaxRefLines) : \E t \in BOOLEAN :
          sanity_file = FileOf(lines, t)
    /\ text_fout = <<>>
    /\ json_fout = <<>>
    /\ sanity_check_lines = <<>>
    /\ wpc = "writing"
    /\ wi = 0
    /\ message = <<>>

NextWrite ==
    \/ WriteSentence
    \/ ReadSanityCheck
    \/ CompareLine
    \/ Return

SpecWrite == InitWrite /\ [][NextWrite]_vars

\* ------------------------------------------------- claims about main()
\* the positions after the corpus has been truncated
Truncated_pcs == {"decode", "barrier", "in_barrier", "write_outputs"}
\* the positions after the decoding loop has run to its end
Decoded_pcs == {"barrier", "in_barrier", "write_outputs"}

HoldsCorpus(w) == pc[w] \in Truncated_pcs \/ error[w] = "KeyError"
StartedDecoding(w) == pc[w] \in Decoded_pcs \/ error[w] = "KeyError"
Count(w) == Len(Concatenate(all_samples[w]))

\* C1 (as stated): with num_samples >= 1, once the loop has ended and the corpus
\* has been truncated, the corpus holds exactly num_samples * mbr_sample samples.
C1_ExactTarget ==
    \A w \in Ranks :
        (args.num_samples >= 1 /\ HoldsCorpus(w))
            => Len(arr[w]) = args.num_samples * args.mbr_sample

\* C2: every completed gather round k leaves, on every worker, exactly
\* world_size batches of batch_size samples each, the batch of rank r in slot r,
\* whatever the order in which the workers reached all_gather.
C2_GatherRankOrder ==
    \A w \in Ranks :
        /\ Len(all_samples[w]) = rounds[w] * world_size
        /\ \A k \in 1..rounds[w] : \A r \in Ranks :
             LET b == all_samples[w][(k - 1) * world_size + r + 1] IN
             /\ Len(b) = args.batch_size
             /\ \A j \in 1..Len(b) :
                    b[j].rank = r /\ b[j].round = k /\ b[j].j = j
        /\ \A v \in Ranks :
             rounds[v] = rounds[w] => all_samples[v] = all_samples[w]

\* C2 witness: a worker has completed a round that the highest rank reached first
C2_Witness ==
    /\ world_size >= 2
    /\ \E w \in Ranks :
         /\ rounds[w] >= 1
         /\ inbox[1][1].rank = world_size - 1

\* C3 (as stated): no worker starts decoding until every worker has completed
\* its last gather round and holds the same complete list of gathered batches.
C3_BarrierBeforeDecoding ==
    \A w \in Ranks :
        StartedDecoding(w) =>
            \A v \in Ranks : all_samples[v] = all_samples[w]

\* C3 (amended): the barrier separates decoding from write_outputs. No worker
\* calls write_outputs until every worker has completed its last gather round,
\* holds the same corpus and has finished decoding it.
C3_BarrierBeforeWrite ==
    \A w \in Ranks :
        pc[w] = "write_outputs" =>
            \A v \in Ranks :
                /\ pc[v] \in {"in_barrier", "write_outputs"}
                /\ ~LoopCond(v)
                /\ all_samples[v] = all_samples[w]
                /\ arr[v] = arr[w]
                /\ decoded_sentences[v] = decoded_sentences[w]

\* C3 witness: with two or more workers, one has passed the barrier
C3_Witness ==
    /\ world_size >= 2
    /\ \E w \in Ranks : pc[w] = "write_outputs" /\ Len(arr[w]) >= 1

\* C6: a sampling round that hits a non-finite value ends the worker's run with
\* a NumericalError in that round (it neither resamples nor goes on), and no
\* sample with a non-finite value is contributed, gathered or handed to decoding.
C6_NonFiniteAborts ==
    \A w \in Ranks :
        /\ sample_fn_result[w] = "raised"
              => pc[w] = "aborted" /\ error[w] = "NumericalError"
        /\ \A j \in 1..Len(sample[w]) : sample[w][j].finite
        /\ \A i \in 1..Len(all_samples[w]) :
              \A j \in 1..Len(all_samples[w][i]) : all_samples[w][i][j].finite
        /\ \A i \in 1..Len(arr[w]) : arr[w][i].finite
        /\ \A k \in 1..Len(inbox) : \A i \in 1..Len(inbox[k]) :
              \A j \in 1..Len(inbox[k][i].tensor) : inbox[k][i].tensor[j].finite

\* C6 witness: a worker's second round raised, after a first round was gathered
C6_Witness ==
    \E w \in Ranks :
        /\ sample_fn_result[w] = "raised"
        /\ rounds[w] >= 1

\* C7: a top-1 index without an entry in the table ends the run with a KeyError
\* at that sequence: the worker never reaches the barrier or write_outputs, and
\* every sentence that was decoded is the join of its indices' table entries.
Unmapped(w) ==
    \E i \in 1..Len(arr[w]) : \E p \in 1..args.sequence_len :
        Top1(arr[w][i], p) \notin DOMAIN tokenizer

C7_UnmappedIndexFatal ==
    \A w \in Ranks :
        /\ (Unmapped(w) /\ pc[w] \notin {"loop", "gather", "in_gather", "concat", "decode"})
              => pc[w] = "aborted" /\ error[w] = "KeyError"
        /\ pc[w] \in Decoded_pcs => Len(decoded_sentences[w]) = Len(arr[w])
        /\ \A i \in 1..Len(decoded_sentences[w]) :
              /\ \A p \in 1..args.sequence_len :
                    Top1(arr[w][i], p) \in DOMAIN tokenizer
              /\ decoded_sentences[w][i] =
                    Join([p \in 1..args.sequence_len |-> tokenizer[Top1(arr[w][i], p)]])

\* C7 witness: decoding failed on an unmapped index after a sentence was decoded
C7_Witness ==
    \E w \in Ranks :
        /\ error[w] = "KeyError"
        /\ Unmapped(w)
        /\ Len(decoded_sentences[w]) >= 1

\* C9: the samples a worker has accumulated are rounds * batch_size * world_size
\* and never decrease; a worker that has left the loop has run exactly
\* ceil(num_samples / (batch_size * world_size)) rounds and holds the smallest
\* multiple of batch_size * world_size that is >= num_samples.
PerRound == args.batch_size * world_size
CeilDiv(a, b) == (a + b - 1) \div b

C9_RoundsInv ==
    \A w \in Ranks :
        /\ Count(w) = rounds[w] * PerRound
        /\ pc[w] \in ({"concat"} \cup Truncated_pcs) =>
              /\ rounds[w] = CeilDiv(args.num_samples, PerRound)
              /\ Count(w) >= args.num_samples
              /\ Count(w) - PerRound < args.num_samples

C9_Rounds ==
    /\ []C9_RoundsInv
    /\ [][\A w \in Ranks : Len(Concatenate(all_samples'[w])) >= Count(w)]_vars

\* C9 witness: a worker left the loop after two or more rounds, past the request
C9_Witness ==
    \E w \in Ranks :
        /\ pc[w] = "concat"
        /\ rounds[w] >= 2
        /\ Count(w) > args.num_samples

\* ------------------------------------------- claims about write_outputs
\* the inputs, read independently of the run's own variables
RefLines == ReadLines(sanity_file)
NumRef == Len(RefLines)
NumGen == Len(sentences)
RefSet(i) == Range(Split(RefLines[i + 1]))
GenSet(i) == Range(Split(sentences[i + 1]))
Common(i) == Cardinality(RefSet(i) \cap GenSet(i))
Union(i) == Cardinality(RefSet(i) \cup GenSet(i))
Paired == {i \in 0..(NumRef - 1) : i < NumGen}

Failed == wpc \in {"AssertionError", "IndexError", "ZeroDivisionError"}
Finished == wpc = "returned" \/ Failed

\* J(i) > 0.9, identical lines counting as 1.0, and J(i) <= 0.9
SimilarityAbove(i) == RefSet(i) = GenSet(i) \/ 10 * Common(i) > 9 * Union(i)
SimilarityAtMost(i) == RefSet(i) # GenSet(i) /\ 10 * Common(i) <= 9 * Union(i)

\* C4 (as stated): the run ends with the validation error if J(i) <= 0.9 for
\* some compared index i, and without a validation failure if J(i) > 0.9 for
\* every compared index i (identical lines give 1.0 and pass).
C4_StrictGuard ==
    Finished =>
        /\ (\E i \in Paired : SimilarityAtMost(i)) => wpc = "AssertionError"
        /\ (\A i \in Paired : SimilarityAbove(i)) => wpc \in {"returned", "IndexError"}

\* the symmetric difference of two token sets
SymDiff(a, b) == (a \ b) \cup (b \ a)

\* C5 (as stated): the error raised at index i carries i, the similarity, both
\* token sets and their symmetric difference.
C5_CarriesSymDiff ==
    wpc = "AssertionError" =>
        message = <<wi, <<Common(wi), Union(wi)>>, RefSet(wi), GenSet(wi),
                    SymDiff(RefSet(wi), GenSet(wi))>>

\* C5 (amended): the error raised at index i carries i, the similarity, the
\* reference token set, the generated token set, and their intersection.
C5_CarriesCommon ==
    wpc = "AssertionError" =>
        /\ wi \in Paired
        /\ ~(10 * Common(wi) > 9 * Union(wi))
        /\ message = <<wi, <<Common(wi), Union(wi)>>, RefSet(wi), GenSet(wi),
                       RefSet(wi) \cap GenSet(wi)>>

\* C5 witness: validation failed on a second line that shares tokens with its reference
C5_Witness ==
    /\ wpc = "AssertionError"
    /\ wi = 1
    /\ message[5] # {}
    /\ message[3] # message[4]

\* the lines of an output file without their terminators
Terminated(l) == l # <<>> /\ l[Len(l)] = "\n"
FileLines(content) ==
    LET ls == ReadLines(content)
    IN [i \in 1..Len(ls) |-> SubSeq(ls[i], 1, Len(ls[i]) - 1)]

\* the string elements of a JSON array line
RECURSIVE JsonStrings(_)
JsonStrings(body) ==
    IF body = <<>> THEN <<>>
    ELSE IF Head(body) # "\"" THEN JsonStrings(Tail(body))
    ELSE LET rest == Tail(body) IN
         IF \A i \in 1..Len(rest) : rest[i] # "\"" THEN <<>>
         ELSE LET n == CHOOSE i \in 1..Len(rest) :
                          /\ rest[i] = "\""
                          /\ \A j \in 1..(i - 1) : rest[j] # "\""
              IN <<SubSeq(rest, 1, n - 1)>> \o JsonStrings(SubSeq(rest, n + 1, Len(rest)))
IsJsonArray(l) == Len(l) >= 2 /\ l[1] = "[" /\ l[Len(l)] = "]"

\* C8: after k sentences have been written both files hold exactly k lines, in
\* input order: text line i is sentence i and JSON line i is an array with the
\* one string element sentence i. When the loop is over, k is len(sentences).
C8_OneLinePerSentence ==
    LET k == IF wpc = "writing" THEN wi ELSE NumGen IN
    /\ \A l \in Range(ReadLines(text_fout)) \cup Range(ReadLines(json_fout)) : Terminated(l)
    /\ FileLines(text_fout) = SubSeq(sentences, 1, k)
    /\ Len(FileLines(json_fout)) = k
    /\ \A i \in 1..Len(FileLines(json_fout)) :
          /\ IsJsonArray(FileLines(json_fout)[i])
          /\ JsonStrings(FileLines(json_fout)[i]) = <<sentences[i]>>

\* C8 witness: two sentences, one of them blank, have been written
C8_Witness ==
    /\ wpc = "comparing"
    /\ NumGen = 2
    /\ sentences[1] # sentences[2]
    /\ \E i \in 1..2 : sentences[i] = <<>>

\* the similarity check as the code evaluates it at a paired index
Passes(i) == Union(i) > 0 /\ 10 * Common(i) > 9 * Union(i)

\* C10 (as stated): only indices below the number of reference lines are
\* compared, so with NumRef <= NumGen no failure arises at NumRef or beyond and
\* an empty reference validates any output; with NumRef > NumGen the run
\* fails at index NumGen with an IndexError instead of a similarity error
\* (runs ended by the division by zero of a blank pair are left aside).
C10_FailsAtNumGen ==
    /\ wpc \in {"comparing", "returned"} \/ Failed => wi <= NumRef
    /\ Finished =>
        /\ NumRef <= NumGen => wpc # "IndexError" /\ (Failed => wi < NumRef)
        /\ NumRef = 0 => wpc = "returned"
        /\ (NumRef > NumGen /\ wpc # "ZeroDivisionError")
              => wpc = "IndexError" /\ wi = NumGen

\* C10 (amended): as stated, except that with NumRef > NumGen the run fails at
\* index NumGen with an IndexError only when every pair below NumGen passes
\* the similarity check; otherwise it fails at the first index whose comparison fails.
C10_FailsAtFirstFailure ==
    /\ wpc \in {"comparing", "returned"} \/ Failed => wi <= NumRef
    /\ Finished =>
        /\ NumRef <= NumGen => wpc # "IndexError" /\ (Failed => wi < NumRef)
        /\ NumRef = 0 => wpc = "returned"
        /\ NumRef > NumGen =>
              IF \A i \in Paired : Passes(i)
              THEN wpc = "IndexError" /\ wi = NumGen
              ELSE /\ wpc \in {"AssertionError", "ZeroDivisionError"}
                   /\ wi \in Paired
                   /\ ~Passes(wi)
                   /\ \A i \in 0..(wi - 1) : Passes(i)

\* C10 witness: a sentence passed, and the next reference line has no sentence
C10_Witness ==
    /\ wpc = "IndexError"
    /\ NumGen >= 1
    /\ wi = NumGen
    /\ NumRef > NumGen

====
